---- MODULE Spec2Model ----
(***************************************************************************)
(* Model of proptest's fixed-size array strategy (proptest/src/array.rs):   *)
(* the strategies [S; N] and UniformArrayStrategy, the ArrayValueTree they  *)
(* build, and the drivers of the module's tests.  The element trees are     *)
(* the integer binary-search trees the tests of array.rs use.  A second     *)
(* part models the NonZeroU8 strategy of arbitrary/non_zero.rs: a Filter    *)
(* over any::<u8>() followed by a Map.  Further parts model the leaf        *)
(* generators of arbitrary/evm.rs and the macros of sugar.rs.               *)
(***************************************************************************)
EXTENDS Integers, Sequences, FiniteSets, TLC

\* ------------------------------------------------------------------ bounds
\* arity N of the array strategy driven by Spec
ArrayLen == 2
\* element samples of Spec range over -MaxNeg .. MaxPos
MaxNeg == 2
MaxPos == 4
\* retry budget B of the Filter combinator in SpecNonZero
MaxLocalRejects == 2
\* u64 word samples of SpecLeaf range over 0 .. MaxWord
MaxWord == 2
\* parameter counts of SpecWrap range over 1 .. MaxParams
MaxParams == 3
\* generated values of SpecWrap range over 0 .. MaxValue
MaxValue == 2

\* ------------------------------------------------------- program constants
\* `let input = [0..32, 0..32]`
RangeEnd == 32
\* `a[0] * a[1] <= 9`
PassLimit == 9
\* arity of `input`
InputLen == 2
\* largest value of the base type of `non_zero_impl!(u8, NonZeroU8)`
U8Max == 255
\* `a in 0u32..42u32`
ARangeStart == 0
ARangeEnd == 42
\* `b in 1u32..10u32`
BRangeStart == 1
BRangeEnd == 10
\* `prop_assume!(a != 41 || b != 9)`
AssumeA == 41
AssumeB == 9
\* `assert!(a + b < 50)`
AssertLimit == 50

VARIABLES
    runner,         \* the TestRunner's entropy still to be consumed (a tape)
    input,          \* the array strategy: one element strategy per index
    status,         \* "none" before new_tree, then "tree" (Ok) or "reject" (Err)
    tree,           \* ArrayValueTree.tree: the sub-trees, index 0 first
    shrinker,       \* ArrayValueTree.shrinker
    last_shrinker,  \* ArrayValueTree.last_shrinker: <<>> is None, <<i>> is Some(i)
    op,             \* the last call made on the strategy or the tree
    ret,            \* what the last simplify()/complicate() returned
    out,            \* what the last call returned, when it was current()
    before,         \* what the last call found (Snapshot)
    called,         \* the calls the last call made on sub-strategies / sub-trees
    fresh,          \* no simplify() call was made since new_tree
    exhausted,      \* some simplify() call has returned false
    pc,             \* position of the shrink loop of test::shrinks_fully_ltr
    nz,             \* the tree of the NonZeroU8 strategy: <<>> or <<inner tree>>
    local_rejects,  \* the Filter's count of rejected draws
    leaf,           \* one draw of a leaf generator of arbitrary/evm.rs
    test_case,      \* one run of the test case body of sugar.rs test_something
    wrap            \* one expansion of proptest! for a test function

vars == <<runner, input, status, tree, shrinker, last_shrinker, op, ret, out,
          before, called, fresh, exhausted, pc, nz, local_rejects,
          leaf, test_case, wrap>>

\* the state of the array strategy and its tree, and of the non-zero strategy
array_vars == <<input, tree, shrinker, last_shrinker, called, fresh, exhausted, pc>>
non_zero_vars == <<nz, local_rejects>>
\* the state of the leaf generators and of the proptest! sugar
leaf_vars == <<leaf>>
sugar_vars == <<test_case, wrap>>
\* the state of the strategies and trees of array.rs and non_zero.rs
tree_vars == <<runner, input, status, tree, shrinker, last_shrinker, op, ret, out,
               before, called, fresh, exhausted, pc, nz, local_rejects>>

\* ------------------------------------------------------------- Option<usize>
None == <<>>
Some(i) == <<i>>

\* ------------------------------------------------- element trees (integers)
\* Rust's integer division truncates toward zero
Quot(a, b) == IF a >= 0 THEN a \div b ELSE -((-a) \div b)

magnitude_greater(lhs, rhs) ==
    IF lhs = 0 THEN FALSE
    ELSE IF lhs < 0 THEN lhs < rhs
    ELSE lhs > rhs

\* a binary-search tree over integers: lo, curr, hi
BinarySearch_new_clamped(lo, start, hi) ==
    [lo   |-> IF start < 0 THEN (IF hi < 0 THEN hi ELSE 0)
                           ELSE (IF lo > 0 THEN lo ELSE 0),
     curr |-> start,
     hi   |-> start]

reposition(t) ==
    LET new_mid == t.lo + Quot(t.hi - t.lo, 2)
    IN  IF new_mid = t.curr
        THEN [ret |-> FALSE, t |-> t]
        ELSE [ret |-> TRUE, t |-> [t EXCEPT !.curr = new_mid]]

sub_current(t) == t.curr

sub_simplify(t) ==
    IF ~magnitude_greater(t.hi, t.lo)
    THEN [ret |-> FALSE, t |-> t]
    ELSE reposition([t EXCEPT !.hi = t.curr])

\* with curr = hi no simplify() step is recorded: there is nothing to undo
sub_complicate(t) ==
    IF t.curr = t.hi \/ ~magnitude_greater(t.hi, t.lo)
    THEN [ret |-> FALSE, t |-> t]
    ELSE reposition([t EXCEPT !.lo = t.curr + (IF t.hi < 0 THEN -1 ELSE 1)])

\* ------------------------------------------------------ element strategies
\* One entry of the entropy tape is what one sub-draw makes of the runner:
\* Reject (the element strategy's new_tree returns Err) or a sample.
Reject == <<>>
Sample(v) == <<v>>

\* an element strategy is an integer range start..end_
Range(start, end_) == [start |-> start, end_ |-> end_]

\* strategy.new_tree(runner) of one element strategy
sub_new_tree(strategy, rn) ==
    IF Head(rn) = Reject
    THEN [ok |-> FALSE, runner |-> Tail(rn)]
    ELSE [ok |-> TRUE, runner |-> Tail(rn),
          tree |-> BinarySearch_new_clamped(strategy.start, Head(rn)[1],
                                            strategy.end_ - 1)]

\* --------------------------------------------------------- ArrayValueTree
\* collect as it would be if it drew from every strategy before looking for
\* an Err
RECURSIVE collect_all(_, _, _, _, _)
collect_all(strategies, i, rn, acc, ok) ==
    IF i > Len(strategies)
    THEN [ok |-> ok, runner |-> rn, trees |-> IF ok THEN acc ELSE <<>>,
          drawn |-> i - 1]
    ELSE LET r == sub_new_tree(strategies[i], rn)
         IN  IF r.ok
             THEN collect_all(strategies, i + 1, r.runner, Append(acc, r.tree), ok)
             ELSE collect_all(strategies, i + 1, r.runner, acc, FALSE)

collect_without_short_circuit(strategies, i, rn, acc) ==
    collect_all(strategies, i, rn, acc, TRUE)

\* self.iter().map(|strategy| strategy.new_tree(runner)).collect::<Result<..>>()
RECURSIVE collect(_, _, _, _)
collect(strategies, i, rn, acc) ==
    IF i > Len(strategies)
    THEN [ok |-> TRUE, runner |-> rn, trees |-> acc, drawn |-> i - 1]
    ELSE LET r == sub_new_tree(strategies[i], rn)
         IN  IF r.ok
             THEN collect(strategies, i + 1, r.runner, Append(acc, r.tree))
             ELSE [ok |-> FALSE, runner |-> r.runner, trees |-> <<>>, drawn |-> i]

\* <[S; N] as Strategy>::new_tree
new_tree(strategies, rn) ==
    LET c == collect(strategies, 1, rn, <<>>)
    IN  IF c.ok
        THEN [ok |-> TRUE, runner |-> c.runner, drawn |-> c.drawn,
              tree |-> c.trees, shrinker |-> 0, last_shrinker |-> None]
        ELSE [ok |-> FALSE, runner |-> c.runner, drawn |-> c.drawn,
              tree |-> <<>>, shrinker |-> 0, last_shrinker |-> None]

\* collect_repeat as it would be with `.take(N - 1)`
RECURSIVE collect_repeat_one_short(_, _, _, _, _)
collect_repeat_one_short(strategy, n, i, rn, acc) ==
    IF i > n - 1
    THEN [ok |-> TRUE, runner |-> rn, trees |-> acc, drawn |-> i - 1]
    ELSE LET r == sub_new_tree(strategy, rn)
         IN  IF r.ok
             THEN collect_repeat_one_short(strategy, n, i + 1, r.runner,
                                           Append(acc, r.tree))
             ELSE [ok |-> FALSE, runner |-> r.runner, trees |-> <<>>, drawn |-> i]

\* iter::repeat_with(|| self.strategy.new_tree(runner)).take(N).collect::<Result<..>>()
RECURSIVE collect_repeat(_, _, _, _, _)
collect_repeat(strategy, n, i, rn, acc) ==
    IF i > n
    THEN [ok |-> TRUE, runner |-> rn, trees |-> acc, drawn |-> i - 1]
    ELSE LET r == sub_new_tree(strategy, rn)
         IN  IF r.ok
             THEN collect_repeat(strategy, n, i + 1, r.runner, Append(acc, r.tree))
             ELSE [ok |-> FALSE, runner |-> r.runner, trees |-> <<>>, drawn |-> i]

\* <UniformArrayStrategy<S, [S::Value; N]> as Strategy>::new_tree
uniform_new_tree(strategy, n, rn) ==
    LET c == collect_repeat(strategy, n, 1, rn, <<>>)
    IN  IF c.ok
        THEN [ok |-> TRUE, runner |-> c.runner, drawn |-> c.drawn,
              tree |-> c.trees, shrinker |-> 0, last_shrinker |-> None]
        ELSE [ok |-> FALSE, runner |-> c.runner, drawn |-> c.drawn,
              tree |-> <<>>, shrinker |-> 0, last_shrinker |-> None]

\* the two array strategies: [S; N] holds N strategies, uniform(strategy) one
ArrayStrategy(strategies) ==
    [uniform |-> FALSE, strategies |-> strategies, n |-> Len(strategies)]

UniformArrayStrategy(strategy, n) ==
    [uniform |-> TRUE, strategies |-> <<strategy>>, n |-> n]

\* element strategy i (from 0) of an array strategy
ElementStrategy(st, i) ==
    IF st.uniform THEN st.strategies[1] ELSE st.strategies[i + 1]

\* Strategy::new_tree, by the type of the strategy
strategy_new_tree(st, rn) ==
    IF st.uniform
    THEN uniform_new_tree(st.strategies[1], st.n, rn)
    ELSE new_tree(st.strategies, rn)

\* current as it would be with the sub-trees visited last to first
current_reversed(tr) == [i \in 1..Len(tr) |-> sub_current(tr[Len(tr) + 1 - i])]

\* ArrayValueTree::current; sub-tree i of the source is tree[i + 1] here
current(tr) == [i \in 1..Len(tr) |-> sub_current(tr[i])]

\* simplify as it would be with `while self.shrinker < N - 1`
RECURSIVE simplify_skip_last(_, _, _, _)
simplify_skip_last(tr, c, last, calls) ==
    IF c < Len(tr) - 1
    THEN LET r == sub_simplify(tr[c + 1])
             tr2 == [tr EXCEPT ![c + 1] = r.t]
             calls2 == Append(calls, <<"simplify", c>>)
         IN  IF r.ret
             THEN [ret |-> TRUE, tree |-> tr2, shrinker |-> c,
                   last_shrinker |-> Some(c), called |-> calls2]
             ELSE simplify_skip_last(tr2, c + 1, last, calls2)
    ELSE [ret |-> FALSE, tree |-> tr, shrinker |-> c,
          last_shrinker |-> last, called |-> calls]

\* simplify as it would be with `if` for `while`: one sub-tree per call
simplify_one_attempt(tr, c, last, calls) ==
    IF c < Len(tr)
    THEN LET r == sub_simplify(tr[c + 1])
             tr2 == [tr EXCEPT ![c + 1] = r.t]
             calls2 == Append(calls, <<"simplify", c>>)
         IN  IF r.ret
             THEN [ret |-> TRUE, tree |-> tr2, shrinker |-> c,
                   last_shrinker |-> Some(c), called |-> calls2]
             ELSE [ret |-> FALSE, tree |-> tr2, shrinker |-> c + 1,
                   last_shrinker |-> last, called |-> calls2]
    ELSE [ret |-> FALSE, tree |-> tr, shrinker |-> c,
          last_shrinker |-> last, called |-> calls]

\* simplify as it would be without `self.last_shrinker = Some(self.shrinker)`
RECURSIVE simplify_forgets_last_shrinker(_, _, _, _)
simplify_forgets_last_shrinker(tr, c, last, calls) ==
    IF c < Len(tr)
    THEN LET r == sub_simplify(tr[c + 1])
             tr2 == [tr EXCEPT ![c + 1] = r.t]
             calls2 == Append(calls, <<"simplify", c>>)
         IN  IF r.ret
             THEN [ret |-> TRUE, tree |-> tr2, shrinker |-> c,
                   last_shrinker |-> last, called |-> calls2]
             ELSE simplify_forgets_last_shrinker(tr2, c + 1, last, calls2)
    ELSE [ret |-> FALSE, tree |-> tr, shrinker |-> c,
          last_shrinker |-> last, called |-> calls]

\* simplify as it would be returning true once the cursor has reached N
RECURSIVE simplify_never_false(_, _, _, _)
simplify_never_false(tr, c, last, calls) ==
    IF c < Len(tr)
    THEN LET r == sub_simplify(tr[c + 1])
             tr2 == [tr EXCEPT ![c + 1] = r.t]
             calls2 == Append(calls, <<"simplify", c>>)
         IN  IF r.ret
             THEN [ret |-> TRUE, tree |-> tr2, shrinker |-> c,
                   last_shrinker |-> Some(c), called |-> calls2]
             ELSE simplify_never_false(tr2, c + 1, last, calls2)
    ELSE [ret |-> TRUE, tree |-> tr, shrinker |-> c,
          last_shrinker |-> last, called |-> calls]

\* simplify as it would be recording the index after the cursor
RECURSIVE simplify_records_next_index(_, _, _, _)
simplify_records_next_index(tr, c, last, calls) ==
    IF c < Len(tr)
    THEN LET r == sub_simplify(tr[c + 1])
             tr2 == [tr EXCEPT ![c + 1] = r.t]
             calls2 == Append(calls, <<"simplify", c>>)
         IN  IF r.ret
             THEN [ret |-> TRUE, tree |-> tr2, shrinker |-> c,
                   last_shrinker |-> Some(c + 1), called |-> calls2]
             ELSE simplify_records_next_index(tr2, c + 1, last, calls2)
    ELSE [ret |-> FALSE, tree |-> tr, shrinker |-> c,
          last_shrinker |-> last, called |-> calls]

\* simplify as it would be starting every call at sub-tree 0
RECURSIVE simplify_from_start(_, _, _, _)
simplify_from_start(tr, c, last, calls) ==
    LET from == IF calls = <<>> THEN 0 ELSE c
    IN  IF from < Len(tr)
        THEN LET r == sub_simplify(tr[from + 1])
                 tr2 == [tr EXCEPT ![from + 1] = r.t]
                 calls2 == Append(calls, <<"simplify", from>>)
             IN  IF r.ret
                 THEN [ret |-> TRUE, tree |-> tr2, shrinker |-> from,
                       last_shrinker |-> Some(from), called |-> calls2]
                 ELSE simplify_from_start(tr2, from + 1, last, calls2)
        ELSE [ret |-> FALSE, tree |-> tr, shrinker |-> from,
              last_shrinker |-> last, called |-> calls]

\* ArrayValueTree::simplify: the while loop, started with cursor c
RECURSIVE simplify(_, _, _, _)
simplify(tr, c, last, calls) ==
    IF c < Len(tr)
    THEN LET r == sub_simplify(tr[c + 1])
             tr2 == [tr EXCEPT ![c + 1] = r.t]
             calls2 == Append(calls, <<"simplify", c>>)
         IN  IF r.ret
             THEN [ret |-> TRUE, tree |-> tr2, shrinker |-> c,
                   last_shrinker |-> Some(c), called |-> calls2]
             ELSE simplify(tr2, c + 1, last, calls2)
    ELSE [ret |-> FALSE, tree |-> tr, shrinker |-> c,
          last_shrinker |-> last, called |-> calls]

\* complicate as it would be calling simplify() on the sub-tree
complicate_calls_simplify(tr, c, last) ==
    IF last # None
    THEN LET i == last[1]
             r == sub_simplify(tr[i + 1])
             tr2 == [tr EXCEPT ![i + 1] = r.t]
         IN  IF r.ret
             THEN [ret |-> TRUE, tree |-> tr2, shrinker |-> i,
                   last_shrinker |-> last, called |-> <<<<"simplify", i>>>>]
             ELSE [ret |-> FALSE, tree |-> tr2, shrinker |-> i,
                   last_shrinker |-> None, called |-> <<<<"simplify", i>>>>]
    ELSE [ret |-> FALSE, tree |-> tr, shrinker |-> c,
          last_shrinker |-> last, called |-> <<>>]

\* complicate as it would be using the cursor when last_shrinker is None
complicate_ignores_last_shrinker(tr, c, last) ==
    LET i == IF last # None THEN last[1] ELSE c
    IN  IF i < Len(tr)
        THEN LET r == sub_complicate(tr[i + 1])
                 tr2 == [tr EXCEPT ![i + 1] = r.t]
             IN  IF r.ret
                 THEN [ret |-> TRUE, tree |-> tr2, shrinker |-> i,
                       last_shrinker |-> last, called |-> <<<<"complicate", i>>>>]
                 ELSE [ret |-> FALSE, tree |-> tr2, shrinker |-> i,
                       last_shrinker |-> None, called |-> <<<<"complicate", i>>>>]
        ELSE [ret |-> FALSE, tree |-> tr, shrinker |-> c,
              last_shrinker |-> last, called |-> <<>>]

\* complicate as it would be without `self.last_shrinker = None`
complicate_keeps_last_shrinker(tr, c, last) ==
    IF last # None
    THEN LET i == last[1]
             r == sub_complicate(tr[i + 1])
             tr2 == [tr EXCEPT ![i + 1] = r.t]
         IN  [ret |-> r.ret, tree |-> tr2, shrinker |-> i,
              last_shrinker |-> last, called |-> <<<<"complicate", i>>>>]
    ELSE [ret |-> FALSE, tree |-> tr, shrinker |-> c,
          last_shrinker |-> last, called |-> <<>>]

\* ArrayValueTree::complicate
complicate(tr, c, last) ==
    IF last # None
    THEN LET i == last[1]
             r == sub_complicate(tr[i + 1])
             tr2 == [tr EXCEPT ![i + 1] = r.t]
         IN  IF r.ret
             THEN [ret |-> TRUE, tree |-> tr2, shrinker |-> i,
                   last_shrinker |-> last, called |-> <<<<"complicate", i>>>>]
             ELSE [ret |-> FALSE, tree |-> tr2, shrinker |-> i,
                   last_shrinker |-> None, called |-> <<<<"complicate", i>>>>]
    ELSE [ret |-> FALSE, tree |-> tr, shrinker |-> c,
          last_shrinker |-> last, called |-> <<>>]

\* ------------------------------------------------------------------ state
\* what a call finds: the tree and the runner, the call made before it with
\* its results, and what current() was before that earlier call
Snapshot == [tree |-> tree, shrinker |-> shrinker,
             last_shrinker |-> last_shrinker, current |-> current(tree),
             runner |-> runner, op |-> op, ret |-> ret, out |-> out,
             prev_current |-> before.current]

NoSnapshot == [tree |-> <<>>, shrinker |-> 0, last_shrinker |-> None,
               current |-> <<>>, runner |-> <<>>, op |-> "init", ret |-> FALSE,
               out |-> <<>>, prev_current |-> <<>>]

Samples == (0 - MaxNeg)..MaxPos
Entries == {Reject} \cup {Sample(v) : v \in Samples}

InitCommon ==
    /\ status = "none"
    /\ tree = <<>>
    /\ shrinker = 0
    /\ last_shrinker = None
    /\ op = "init"
    /\ ret = FALSE
    /\ out = <<>>
    /\ before = NoSnapshot
    /\ called = <<>>
    /\ fresh = TRUE
    /\ exhausted = FALSE
    /\ pc = "new_tree"
    /\ nz = <<>>
    /\ local_rejects = 0

\* nothing drawn from a leaf generator, no test case run, nothing expanded
NoLeaf == [pc |-> "none"]
NoCase == [pc |-> "none"]
NoWrap == [pc |-> "none"]

ElemRange == Range(0 - MaxNeg, MaxPos + 1)

\* an array strategy of ArrayLen integer ranges, of either kind, and a runner
\* about to serve ArrayLen sub-draws
Init ==
    /\ input \in {ArrayStrategy([i \in 1..ArrayLen |-> ElemRange]),
                  UniformArrayStrategy(ElemRange, ArrayLen)}
    /\ runner \in [1..ArrayLen -> Entries]
    /\ InitCommon
    /\ leaf = NoLeaf
    /\ test_case = NoCase
    /\ wrap = NoWrap

\* input.new_tree(&mut runner)
NewTree ==
    /\ status = "none"
    /\ LET r == strategy_new_tree(input, runner)
       IN  /\ runner' = r.runner
           /\ status' = IF r.ok THEN "tree" ELSE "reject"
           /\ tree' = r.tree
           /\ shrinker' = r.shrinker
           /\ last_shrinker' = r.last_shrinker
           /\ called' = [i \in 1..r.drawn |-> <<"new_tree", i - 1>>]
    /\ op' = "new_tree"
    /\ before' = Snapshot
    /\ out' = <<>>
    /\ UNCHANGED <<input, ret, fresh, exhausted, pc>>
    /\ UNCHANGED <<non_zero_vars, leaf_vars, sugar_vars>>

\* case.current()
Current ==
    /\ status = "tree"
    /\ out' = current(tree)
    /\ op' = "current"
    /\ before' = Snapshot
    /\ called' = [i \in 1..Len(tree) |-> <<"current", i - 1>>]
    /\ UNCHANGED <<runner, input, status, tree, shrinker, last_shrinker, ret,
                   fresh, exhausted, pc>>
    /\ UNCHANGED <<non_zero_vars, leaf_vars, sugar_vars>>

\* the effect of case.simplify() on the tree and the record of the call
DoSimplify ==
    LET r == simplify(tree, shrinker, last_shrinker, <<>>)
    IN  /\ tree' = r.tree
        /\ shrinker' = r.shrinker
        /\ last_shrinker' = r.last_shrinker
        /\ ret' = r.ret
        /\ called' = r.called
        /\ op' = "simplify"
        /\ out' = <<>>
        /\ before' = Snapshot
        /\ fresh' = FALSE
        /\ exhausted' = (exhausted \/ ~r.ret)

\* the effect of case.complicate() on the tree and the record of the call
DoComplicate ==
    LET r == complicate(tree, shrinker, last_shrinker)
    IN  /\ tree' = r.tree
        /\ shrinker' = r.shrinker
        /\ last_shrinker' = r.last_shrinker
        /\ ret' = r.ret
        /\ called' = r.called
        /\ op' = "complicate"
        /\ out' = <<>>
        /\ before' = Snapshot
        /\ UNCHANGED <<fresh, exhausted>>

\* case.simplify(), called by a driver free to call anything
Simplify ==
    /\ status = "tree"
    /\ DoSimplify
    /\ UNCHANGED <<runner, input, status, pc>>
    /\ UNCHANGED <<non_zero_vars, leaf_vars, sugar_vars>>

\* case.complicate(), called by a driver free to call anything
Complicate ==
    /\ status = "tree"
    /\ DoComplicate
    /\ UNCHANGED <<runner, input, status, pc>>
    /\ UNCHANGED <<non_zero_vars, leaf_vars, sugar_vars>>

Next == NewTree \/ Current \/ Simplify \/ Complicate

Spec == Init /\ [][Next]_vars

\* -------------------------------------------- a driver that only simplifies
\* the driver calls simplify() again and again, and nothing else
NextSimplify == NewTree \/ Simplify

SpecSimplify ==
    Init /\ [][NextSimplify]_vars /\ WF_vars(NewTree) /\ WF_vars(Simplify)

\* ------------------------------------------------ test::shrinks_fully_ltr
\* fn pass(a: [i32; 2]) -> bool
pass(a) == a[1] * a[2] <= PassLimit

\* `let input = [0..32, 0..32]` and a runner about to serve the two sub-draws
InitShrink ==
    /\ input = ArrayStrategy([i \in 1..InputLen |-> Range(0, RangeEnd)])
    /\ runner \in [1..InputLen -> {Sample(v) : v \in 0..(RangeEnd - 1)}]
    /\ InitCommon
    /\ leaf = NoLeaf
    /\ test_case = NoCase
    /\ wrap = NoWrap

\* `let mut case = input.new_tree(&mut runner).unwrap();
\*  if pass(case.current()) { continue; }`
ShrinkNewTree ==
    /\ pc = "new_tree"
    /\ LET r == new_tree(input.strategies, runner)
       IN  /\ runner' = r.runner
           /\ status' = IF r.ok THEN "tree" ELSE "reject"
           /\ tree' = r.tree
           /\ shrinker' = r.shrinker
           /\ last_shrinker' = r.last_shrinker
           /\ called' = [i \in 1..r.drawn |-> <<"new_tree", i - 1>>]
           /\ pc' = IF pass(current(r.tree)) THEN "passed" ELSE "loop"
    /\ op' = "new_tree"
    /\ before' = Snapshot
    /\ out' = <<>>
    /\ UNCHANGED <<input, ret, fresh, exhausted>>
    /\ UNCHANGED <<non_zero_vars, leaf_vars, sugar_vars>>

\* one turn of `loop { if pass(case.current()) { if !case.complicate() { break; } }
\*                     else { if !case.simplify() { break; } } }`
ShrinkComplicate ==
    /\ pc = "loop"
    /\ pass(current(tree))
    /\ DoComplicate
    /\ pc' = IF ret' THEN "loop" ELSE "done"
    /\ UNCHANGED <<runner, input, status>>
    /\ UNCHANGED <<non_zero_vars, leaf_vars, sugar_vars>>

ShrinkSimplify ==
    /\ pc = "loop"
    /\ ~pass(current(tree))
    /\ DoSimplify
    /\ pc' = IF ret' THEN "loop" ELSE "done"
    /\ UNCHANGED <<runner, input, status>>
    /\ UNCHANGED <<non_zero_vars, leaf_vars, sugar_vars>>

NextShrink == ShrinkNewTree \/ ShrinkComplicate \/ ShrinkSimplify

\* the loop is sequential code: it keeps running until it breaks
SpecShrink == InitShrink /\ [][NextShrink]_vars /\ WF_vars(NextShrink)

\* ------------------------------------------- non_zero_impl!(u8, NonZeroU8)
\* any::<u8>().new_tree(runner): a binary search from 0 up to the sample
any_new_tree(rn) ==
    [ok |-> TRUE, runner |-> Tail(rn),
     tree |-> BinarySearch_new_clamped(0, Head(rn)[1], U8Max)]

\* the predicate as it would be if it let every value through
non_zero_pred_accepts_all(i) == TRUE

\* the predicate as it would be with `==` for `!=`
non_zero_pred_inverted(i) == i = 0

\* `|i| i != 0`
non_zero_pred(i) == i # 0

\* Filter::new_tree: draw until the predicate holds; every draw that fails it
\* counts against the retry budget, and the budget used up is a Reject
RECURSIVE filter_new_tree(_, _)
filter_new_tree(rn, rejects) ==
    LET r == any_new_tree(rn)
    IN  IF non_zero_pred(sub_current(r.tree))
        THEN [ok |-> TRUE, runner |-> r.runner, tree |-> <<r.tree>>,
              local_rejects |-> rejects]
        ELSE IF rejects + 1 >= MaxLocalRejects
             THEN [ok |-> FALSE, runner |-> r.runner, tree |-> <<>>,
                   local_rejects |-> rejects + 1]
             ELSE filter_new_tree(r.runner, rejects + 1)

\* Filter: while the value fails the predicate, move on to the next candidate
\* of the inner tree; false when there is none
RECURSIVE ensure_acceptable(_)
ensure_acceptable(t) ==
    IF non_zero_pred(sub_current(t))
    THEN [ret |-> TRUE, t |-> t]
    ELSE LET r == sub_complicate(t)
         IN  IF r.ret THEN ensure_acceptable(r.t) ELSE [ret |-> FALSE, t |-> r.t]

\* Filter's tree: simplify() re-checks the predicate, complicate() delegates
filter_simplify(t) ==
    LET r == sub_simplify(t)
    IN  IF r.ret THEN ensure_acceptable(r.t) ELSE r

filter_complicate(t) == sub_complicate(t)

filter_current(t) == sub_current(t)

\* a NonZeroU8 holding i
NonZero(i) == [get |-> i]

\* u8 -> Result<NonZeroU8, _>: <<v>> is Ok(v), <<>> is Err
try_into(i) == IF i = 0 THEN <<>> ELSE <<NonZero(i)>>

\* `|i| i.try_into().unwrap()`: <<>> stands for the panic of unwrap()
map_fun(i) == try_into(i)

\* Map's tree (boxed): current() maps the inner value, the rest delegates
map_current(t) == map_fun(filter_current(t))

\* the runner serves MaxLocalRejects + 1 draws of u8 samples; what follows
\* the first non-zero sample is never read, so it is left 0
NonZeroTapes ==
    {[i \in 1..(MaxLocalRejects + 1) |-> Sample(IF i = k THEN v ELSE 0)] :
        k \in 1..(MaxLocalRejects + 1), v \in 0..U8Max}

InitNonZero ==
    /\ input = <<>>
    /\ runner \in NonZeroTapes
    /\ InitCommon
    /\ leaf = NoLeaf
    /\ test_case = NoCase
    /\ wrap = NoWrap

\* NonZeroU8::arbitrary_with(()).new_tree(&mut runner)
NonZeroNewTree ==
    /\ status = "none"
    /\ LET r == filter_new_tree(runner, local_rejects)
       IN  /\ runner' = r.runner
           /\ status' = IF r.ok THEN "tree" ELSE "reject"
           /\ nz' = r.tree
           /\ local_rejects' = r.local_rejects
    /\ op' = "new_tree"
    /\ before' = Snapshot
    /\ out' = <<>>
    /\ UNCHANGED ret
    /\ UNCHANGED <<array_vars, leaf_vars, sugar_vars>>

\* current() of the NonZeroU8 tree; unwrap() panics on Err
NonZeroCurrent ==
    /\ status = "tree"
    /\ out' = map_current(nz[1])
    /\ status' = IF map_current(nz[1]) = <<>> THEN "panic" ELSE "tree"
    /\ op' = "current"
    /\ UNCHANGED before
    /\ UNCHANGED <<runner, ret, nz, local_rejects>>
    /\ UNCHANGED <<array_vars, leaf_vars, sugar_vars>>

\* simplify() of the NonZeroU8 tree
NonZeroSimplify ==
    /\ status = "tree"
    /\ LET r == filter_simplify(nz[1])
       IN  /\ nz' = <<r.t>>
           /\ ret' = r.ret
    /\ op' = "simplify"
    /\ out' = <<>>
    /\ UNCHANGED before
    /\ UNCHANGED <<runner, status, local_rejects>>
    /\ UNCHANGED <<array_vars, leaf_vars, sugar_vars>>

\* complicate() of the NonZeroU8 tree
NonZeroComplicate ==
    /\ status = "tree"
    /\ LET r == filter_complicate(nz[1])
       IN  /\ nz' = <<r.t>>
           /\ ret' = r.ret
    /\ op' = "complicate"
    /\ out' = <<>>
    /\ UNCHANGED before
    /\ UNCHANGED <<runner, status, local_rejects>>
    /\ UNCHANGED <<array_vars, leaf_vars, sugar_vars>>

NextNonZero ==
    NonZeroNewTree \/ NonZeroCurrent \/ NonZeroSimplify \/ NonZeroComplicate

SpecNonZero == InitNonZero /\ [][NextNonZero]_vars

\* --------------------------------------- arbitrary/evm.rs: leaf generators
\* `hash_impl!(H128, 16); ... hash_impl!(H512, 64);`
HashTypes == {"H128", "H160", "H256", "H512"}
\* `prim_impl!(U128, 2); ... prim_impl!(U512, 8);`
PrimTypes == {"U128", "U256", "U512"}

\* the hash_impl! table with H160 given the width of H128
hash_impl_bytes_h160_short(t) ==
    CASE t = "H128" -> 16
      [] t = "H160" -> 16
      [] t = "H256" -> 32
      [] t = "H512" -> 64

\* the $bytes argument each hash_impl! line passes for its type
hash_impl_bytes(t) ==
    CASE t = "H128" -> 16
      [] t = "H160" -> 20
      [] t = "H256" -> 32
      [] t = "H512" -> 64

\* the $u64s argument each prim_impl! line passes for its type
prim_impl_u64s(t) ==
    CASE t = "U128" -> 2
      [] t = "U256" -> 4
      [] t = "U512" -> 8

\* the width in bits the name of each primitive_types type declares
type_bits(t) ==
    CASE t \in {"H128", "U128"} -> 128
      [] t = "H160" -> 160
      [] t \in {"H256", "U256"} -> 256
      [] t \in {"H512", "U512"} -> 512

\* a construction that does not produce a value
Panic == [type |-> "panic", repr |-> <<>>]

\* `<$t>::from_slice(&bytes)`: copies the bytes into a fresh hash, and panics
\* when the slice is not as long as the hash
from_slice(t, src) ==
    IF Len(src) * 8 = type_bits(t)
    THEN [type |-> t, repr |-> [i \in 1..Len(src) |-> src[i]]]
    ELSE Panic

\* the bytes of a hash, most significant first, as from_slice stored them
as_bytes(h) == h.repr

\* `prop_map(Self)`: the tuple constructor of a big integer takes its array
\* of u64 words, least significant first, as the value's only field
tuple_constructor(t, words) ==
    IF Len(words) * 64 = type_bits(t)
    THEN [type |-> t, repr |-> words]
    ELSE Panic

\* the field `.0` of a big integer
words_of(u) == u.repr

\* the function each impl maps over its block strategy
leaf_map_fun(t, block) ==
    IF t \in HashTypes THEN from_slice(t, block) ELSE tuple_constructor(t, block)

\* the bit pattern of a constructed value
leaf_extract(value) ==
    IF value.type \in HashTypes THEN as_bytes(value) ELSE words_of(value)

\* the length of the block `any::<[u8; $bytes]>()` or `any::<[u64; $u64s]>()`
\* draws for a type
leaf_block_len(t) ==
    IF t \in HashTypes THEN hash_impl_bytes(t) ELSE prim_impl_u64s(t)

\* the units of a block: every u8 for the hashes, samples of u64 for the
\* big integers
leaf_unit_max(t) == IF t \in HashTypes THEN U8Max ELSE MaxWord
leaf_units(t) == 0..leaf_unit_max(t)

\* the blocks explored: one unit chosen freely at one position, over a
\* background of one repeated unit
OneHot(n, k, v, bg) == [i \in 1..n |-> IF i = k THEN v ELSE bg]
LeafBackground(t) == IF t \in HashTypes THEN {0} ELSE 0..MaxWord
LeafBlocks(t) ==
    {OneHot(leaf_block_len(t), k, v, bg) :
        k \in 1..leaf_block_len(t), v \in leaf_units(t), bg \in LeafBackground(t)}

InitIdleTrees ==
    /\ runner = <<>>
    /\ input = <<>>
    /\ InitCommon

InitLeaf ==
    /\ InitIdleTrees
    /\ \E t \in HashTypes \cup PrimTypes : \E block \in LeafBlocks(t) :
            leaf = [pc |-> "draw", type |-> t, block |-> block,
                    value |-> Panic, bits |-> <<>>]
    /\ test_case = NoCase
    /\ wrap = NoWrap

\* Map::new_tree followed by current(): the value built from the drawn block
LeafNewTree ==
    /\ leaf.pc = "draw"
    /\ leaf' = [leaf EXCEPT !.pc = "tree",
                            !.value = leaf_map_fun(leaf.type, leaf.block)]
    /\ UNCHANGED <<tree_vars, sugar_vars>>

\* reading the bit pattern of the value back
LeafExtract ==
    /\ leaf.pc = "tree"
    /\ leaf.value # Panic
    /\ leaf' = [leaf EXCEPT !.pc = "extracted", !.bits = leaf_extract(leaf.value)]
    /\ UNCHANGED <<tree_vars, sugar_vars>>

NextLeaf == LeafNewTree \/ LeafExtract

SpecLeaf == InitLeaf /\ [][NextLeaf]_vars

\* ------------------------- sugar.rs: prop_assume! and test::test_something
\* what a test case function returns, or how it ends
Ok == [kind |-> "Ok", message |-> <<>>]
TestCaseError_Reject(message) == [kind |-> "Reject", message |-> message]
AssertionFailed == [kind |-> "panic", message |-> <<>>]
Running == [kind |-> "running", message |-> <<>>]

\* `format!(concat!("{}:{}:{}: ", $fmt), file!(), line!(), column!(), ...)`
format(text) == <<"file:line:column", text>>

\* prop_assume! with the negation of its condition left out
prop_assume_without_not(expr, text) ==
    IF expr THEN Some(TestCaseError_Reject(format(text))) ELSE None

\* prop_assume!($expr, $fmt, ...): Some(r) when the enclosing function
\* returns r, None when control falls through to the next statement
prop_assume(expr, text) ==
    IF ~expr THEN Some(TestCaseError_Reject(format(text))) ELSE None

\* `a != 41 || b != 9`
assumption(a, b) == a # AssumeA \/ b # AssumeB

\* `a + b < 50`
assertion(a, b) == a + b < AssertLimit

InitAssume ==
    /\ InitIdleTrees
    /\ leaf = NoLeaf
    /\ \E a \in ARangeStart..(ARangeEnd - 1), b \in BRangeStart..(BRangeEnd - 1) :
            test_case = [pc |-> "prop_assume", a |-> a, b |-> b,
                         result |-> Running, asserted |-> FALSE]
    /\ wrap = NoWrap

\* `prop_assume!(a != 41 || b != 9);` with the one-argument arm's message
CaseAssume ==
    /\ test_case.pc = "prop_assume"
    /\ LET r == prop_assume(assumption(test_case.a, test_case.b),
                            "a != 41 || b != 9")
       IN  test_case' =
               IF r # None
               THEN [test_case EXCEPT !.pc = "returned", !.result = r[1]]
               ELSE [test_case EXCEPT !.pc = "assert"]
    /\ UNCHANGED <<tree_vars, leaf_vars, wrap>>

\* `assert!(a + b < 50);` and the `Ok(())` the wrapper puts after the body
CaseAssert ==
    /\ test_case.pc = "assert"
    /\ test_case' =
           [test_case EXCEPT !.pc = "returned", !.asserted = TRUE,
                !.result = IF assertion(test_case.a, test_case.b)
                           THEN Ok ELSE AssertionFailed]
    /\ UNCHANGED <<tree_vars, leaf_vars, wrap>>

NextAssume == CaseAssume \/ CaseAssert

SpecAssume == InitAssume /\ [][NextAssume]_vars

\* ------------------------------------ sugar.rs: proptest! @_WRAP, @_WRAPPAT
\* the i-th token tree or pattern of a parameter list, and a two-element tuple
Item(i) == [kind |-> "item", i |-> i]
Pair(a, rest) == [kind |-> "pair", fst |-> a, snd |-> rest]

RECURSIVE WRAP(_)
\* (@_WRAP ($item:tt)) and (@_WRAP ($a:tt $($rest:tt)*))
WRAP(items) ==
    IF Len(items) = 1
    THEN items[1]
    ELSE Pair(items[1], WRAP(Tail(items)))

RECURSIVE WRAPPAT_left_nested(_)
\* @_WRAPPAT nesting its pairs to the left
WRAPPAT_left_nested(parms) ==
    IF Len(parms) = 1
    THEN parms[1]
    ELSE Pair(WRAPPAT_left_nested(SubSeq(parms, 1, Len(parms) - 1)),
              parms[Len(parms)])

RECURSIVE WRAPPAT(_)
\* (@_WRAPPAT ($item:pat)) and (@_WRAPPAT ($a:pat, $($rest:pat),*))
WRAPPAT(parms) ==
    IF Len(parms) = 1
    THEN parms[1]
    ELSE Pair(parms[1], WRAPPAT(Tail(parms)))

\* a value one strategy generated
Value(v) == [kind |-> "value", v |-> v]

RECURSIVE generate(_, _)
\* the value of the strategy expression: the i-th strategy gives values[i],
\* a tuple of strategies gives the tuple of its components' values
generate(strategy, values) ==
    IF strategy.kind = "item"
    THEN Value(values[strategy.i])
    ELSE Pair(generate(strategy.fst, values), generate(strategy.snd, values))

\* a pattern that cannot take the value it is matched against
Mismatch == 0

RECURSIVE bind(_, _)
\* the closure's `|&pattern|` matched against a value: a parameter pattern
\* binds whatever it is matched against, a tuple pattern matches a tuple
\* component by component
bind(pattern, value) ==
    IF pattern.kind = "item"
    THEN {<<pattern.i, value>>}
    ELSE IF value.kind = "pair"
         THEN bind(pattern.fst, value.fst) \cup bind(pattern.snd, value.snd)
         ELSE {<<Mismatch, value>>}

InitWrap ==
    /\ InitIdleTrees
    /\ leaf = NoLeaf
    /\ test_case = NoCase
    /\ \E k \in 1..MaxParams : \E values \in [1..k -> 0..MaxValue] :
            wrap = [pc |-> "macro", k |-> k, values |-> values,
                    strategy |-> <<>>, pattern |-> <<>>,
                    value |-> <<>>, bindings |-> {}]

\* the expansion of `fn $test_name($($parm:pat in $strategy:expr),+)`
WrapExpand ==
    /\ wrap.pc = "macro"
    /\ wrap' = [wrap EXCEPT !.pc = "expanded",
                    !.strategy = WRAP([i \in 1..wrap.k |-> Item(i)]),
                    !.pattern = WRAPPAT([i \in 1..wrap.k |-> Item(i)])]
    /\ UNCHANGED <<tree_vars, leaf_vars, test_case>>

\* `runner.run(&strategy, |&pattern| { $body; Ok(()) })` for one case
WrapRun ==
    /\ wrap.pc = "expanded"
    /\ LET value == generate(wrap.strategy, wrap.values)
       IN  wrap' = [wrap EXCEPT !.pc = "run", !.value = value,
                        !.bindings = bind(wrap.pattern, value)]
    /\ UNCHANGED <<tree_vars, leaf_vars, test_case>>

NextWrap == WrapExpand \/ WrapRun

SpecWrap == InitWrap /\ [][NextWrap]_vars

\* ================================================================ claims
N == Len(tree)

\* C1 (SpecShrink): when the shrink loop of shrinks_fully_ltr stops, the value
\* still fails the predicate and is minimal in each coordinate:
\* a*b > 9, (a-1)*b <= 9 and a*(b-1) <= 9.
C1_ShrinksFully ==
    pc = "done" =>
        LET last == current(tree)
        IN  /\ ~pass(last)
            /\ pass(<<last[1] - 1, last[2]>>)
            /\ pass(<<last[1], last[2] - 1>>)

\* the loop has stopped after searching both coordinates, each with an undo
C1_Witness ==
    /\ pc = "done"
    /\ tree[1].lo > 0
    /\ tree[2].lo > 0
    /\ tree[1].curr > 1

\* C2 (SpecShrink): the shrink loop, once entered with a failing value, stops
\* after finitely many simplify()/complicate() calls.
C2_LoopTerminates == (pc = "loop") ~> (pc = "done")

\* the loop has stopped on a simplify() that found every sub-tree exhausted,
\* after at least one undo
C2_Witness ==
    /\ pc = "done"
    /\ op = "simplify"
    /\ before.op = "complicate"
    /\ shrinker = N
    /\ last_shrinker = Some(N - 1)

\* C3 (SpecSimplify): repeated simplify() calls eventually return false, and
\* whenever simplify() returns false the cursor is N and every sub-tree
\* refuses simplify().
C3_SimplifyExhausts ==
    /\ [](op = "simplify" /\ ~ret =>
            /\ shrinker = N
            /\ \A i \in 1..N : ~sub_simplify(tree[i]).ret)
    /\ (status = "tree") ~> (op = "simplify" /\ ~ret)

\* simplify() has returned false after simplify() calls that succeeded
C3_Witness ==
    /\ status = "tree"
    /\ op = "simplify"
    /\ ~ret
    /\ last_shrinker # None
    /\ before.op = "simplify"
    /\ before.ret

\* C4 (Spec): once simplify() has returned false, every later simplify() call
\* returns false, whatever complicate() calls are made in between.
C4_ExhaustedIsTerminal == (exhausted /\ op = "simplify") => ~ret

\* a simplify() call made after simplify() had returned false and a
\* complicate() call had moved the cursor back
C4_Witness ==
    /\ exhausted
    /\ op = "simplify"
    /\ before.op = "complicate"
    /\ before.shrinker < N

\* magnitude-wise, x lies beyond `from` and no further than `to`
Between(x, from, to) ==
    IF to >= from THEN from < x /\ x <= to ELSE to <= x /\ x < from

\* C5 as stated: a complicate() right after a simplify() that returned true
\* returns true and current() is again what it was before that simplify().
C5_UndoRoundTrip ==
    (op = "complicate" /\ before.op = "simplify" /\ before.ret) =>
        (ret /\ current(tree) = before.prev_current)

\* C5 (Spec), amended: a complicate() right after a simplify() that returned
\* true returns true; current() is then what it was before that simplify() at
\* every index but the simplified one, where the element lies beyond the
\* simplified value and no further than the value before the simplify().
C5_UndoPartial ==
    (op = "complicate" /\ before.op = "simplify" /\ before.ret) =>
        /\ ret
        /\ \A i \in 1..N :
            IF before.last_shrinker = Some(i - 1)
            THEN Between(current(tree)[i], before.current[i],
                         before.prev_current[i])
            ELSE current(tree)[i] = before.prev_current[i]

\* a complicate() right after a successful simplify() that stopped short of
\* the value before the simplify()
C5_Witness ==
    /\ op = "complicate"
    /\ before.op = "simplify"
    /\ before.ret
    /\ ret
    /\ current(tree) # before.prev_current

\* C6 (Spec): on a tree on which simplify() was never called, complicate()
\* returns false, calls no sub-tree and changes nothing.
C6_FreshComplicate ==
    (fresh /\ op = "complicate") =>
        /\ ~ret
        /\ called = <<>>
        /\ current(tree) = before.current
        /\ shrinker = before.shrinker
        /\ last_shrinker = before.last_shrinker
        /\ tree = before.tree

\* a second complicate() in a row on a tree never simplified
C6_Witness ==
    /\ fresh
    /\ op = "complicate"
    /\ before.op = "complicate"
    /\ \E i \in 1..N : tree[i].curr # 0

\* the indices (from 1) of the sub-draws that reject, on the tape rn
Rejecting(rn, n) == {i \in 1..n : rn[i] = Reject}

\* C7 (Spec): new_tree draws the sub-trees in index order and stops at the
\* first sub-draw that rejects, returning Reject and no tree; if none
\* rejects, the tree holds the N sub-trees in draw order, cursor 0,
\* last_shrinker None.
C7_NewTreeRejects ==
    op = "new_tree" =>
        LET rn == before.runner
            rej == Rejecting(rn, input.n)
        IN  IF rej # {}
            THEN LET k == CHOOSE i \in rej : \A j \in rej : i <= j
                 IN  /\ status = "reject"
                     /\ tree = <<>>
                     /\ called = [i \in 1..k |-> <<"new_tree", i - 1>>]
                     /\ runner = SubSeq(rn, k + 1, Len(rn))
            ELSE /\ status = "tree"
                 /\ N = input.n
                 /\ \A i \in 1..N :
                      tree[i] = BinarySearch_new_clamped(
                                    ElementStrategy(input, i - 1).start, rn[i][1],
                                    ElementStrategy(input, i - 1).end_ - 1)
                 /\ called = [i \in 1..N |-> <<"new_tree", i - 1>>]
                 /\ runner = SubSeq(rn, N + 1, Len(rn))
                 /\ shrinker = 0
                 /\ last_shrinker = None

\* a draw rejected before the last index: the strategies after it are not
\* drawn from
C7_Witness ==
    /\ op = "new_tree"
    /\ status = "reject"
    /\ runner # <<>>
    /\ Len(called) < input.n

\* C10 (Spec): current() returns the array of the sub-trees' current() in
\* index order and changes nothing; two current() calls in a row return
\* equal arrays.
C10_Current ==
    op = "current" =>
        /\ Len(out) = input.n
        /\ \A i \in 1..N : out[i] = sub_current(tree[i])
        /\ tree = before.tree
        /\ shrinker = before.shrinker
        /\ last_shrinker = before.last_shrinker
        /\ (before.op = "current" => out = before.out)

\* two current() calls in a row on a tree that was simplified, whose
\* elements differ
C10_Witness ==
    /\ op = "current"
    /\ before.op = "current"
    /\ ~fresh
    /\ out[1] # out[N]

\* C8 (SpecNonZero): the value of the NonZeroU8 tree is never zero, after
\* new_tree and after any simplify()/complicate() calls, so that
\* try_into().unwrap() does not panic.
C8_NeverZero ==
    /\ status # "panic"
    /\ status = "tree" =>
        /\ filter_current(nz[1]) \in 1..U8Max
        /\ map_current(nz[1]) = <<NonZero(filter_current(nz[1]))>>
    /\ (op = "current" /\ status = "tree") =>
        (Len(out) = 1 /\ out[1].get \in 1..U8Max)

\* a simplify() that reached 0 inside the filter and moved on to 1
C8_Witness ==
    /\ status = "tree"
    /\ op = "simplify"
    /\ ret
    /\ nz[1].lo = 1
    /\ nz[1].curr = 1
    /\ nz[1].hi = 1

\* C9 (SpecNonZero): new_tree of the filtered strategy returns no tree whose
\* value is 0, and it returns Reject, drawing no more, when MaxLocalRejects
\* draws in a row are 0.
C9_FilterNewTree ==
    op = "new_tree" =>
        LET rn == before.runner
            zeros == {i \in 1..MaxLocalRejects : rn[i] = Sample(0)}
        IN  /\ status = "tree" => filter_current(nz[1]) # 0
            /\ IF zeros = 1..MaxLocalRejects
               THEN /\ status = "reject"
                    /\ nz = <<>>
                    /\ local_rejects = MaxLocalRejects
                    /\ runner = SubSeq(rn, MaxLocalRejects + 1, Len(rn))
               ELSE LET k == CHOOSE i \in 1..MaxLocalRejects :
                                 /\ i \notin zeros
                                 /\ \A j \in 1..(i - 1) : j \in zeros
                    IN  /\ status = "tree"
                        /\ filter_current(nz[1]) = rn[k][1]
                        /\ local_rejects = k - 1
                        /\ runner = SubSeq(rn, k + 1, Len(rn))

\* the budget was used up and a non-zero sample was left undrawn
C9_Witness ==
    /\ op = "new_tree"
    /\ status = "reject"
    /\ local_rejects = MaxLocalRejects
    /\ runner # <<>>
    /\ Head(runner) # Sample(0)

\* the sub-tree indices (from 0) the last call used
CalledIndices == {called[k][2] : k \in 1..Len(called)}

\* C14 (Spec): in every state of an array tree 0 <= cursor <= N, and
\* last_shrinker = Some(i) has i < N and i <= cursor; every sub-tree index a
\* call uses is below N, and N stays the arity of the strategy.
C14_CursorInBounds ==
    status = "tree" =>
        /\ shrinker \in 0..N
        /\ last_shrinker # None =>
            (last_shrinker[1] \in 0..(N - 1) /\ last_shrinker[1] <= shrinker)
        /\ CalledIndices \subseteq 0..(N - 1)
        /\ N = input.n

\* the cursor has reached N, past the sub-tree of the last successful
\* simplify()
C14_Witness ==
    /\ status = "tree"
    /\ op = "simplify"
    /\ last_shrinker # None
    /\ last_shrinker[1] < shrinker
    /\ shrinker = N

\* C15 (Spec): a simplify() that returns true, started with cursor c, succeeds
\* on the lowest index j >= c whose sub-tree accepts: cursor j, last_shrinker
\* Some(j), current() unchanged at every other index, sub-trees c..j called
\* and no other; and every simplify() call tries the sub-tree at its cursor
\* first, so the next call tries j again.
C15_SimplifyLowestIndex ==
    op = "simplify" =>
        LET c == before.shrinker
            j == shrinker
        IN  /\ (called # <<>>) => (Head(called) = <<"simplify", c>>)
            /\ ret =>
                /\ c <= j
                /\ j < N
                /\ last_shrinker = Some(j)
                /\ called = [k \in 1..(j - c + 1) |-> <<"simplify", c + k - 1>>]
                /\ \A i \in c..(j - 1) : ~sub_simplify(before.tree[i + 1]).ret
                /\ sub_simplify(before.tree[j + 1]).ret
                /\ tree[j + 1] = sub_simplify(before.tree[j + 1]).t
                /\ \A i \in 0..(N - 1) :
                     (i # j) => (current(tree)[i + 1] = before.current[i + 1])
                /\ \A i \in 0..(N - 1) :
                     (i < c \/ i > j) => (tree[i + 1] = before.tree[i + 1])

\* a second successful simplify() in a row on a sub-tree other than the
\* first, reached past a sub-tree that refused
C15_Witness ==
    /\ op = "simplify"
    /\ ret
    /\ before.op = "simplify"
    /\ before.ret
    /\ before.shrinker = shrinker
    /\ shrinker > 0
    /\ Len(called) = 1

\* C16 (Spec): complicate() with last_shrinker = Some(i) sets the cursor to i
\* and calls complicate() on sub-tree i only; it returns what the sub-tree
\* returns, keeping Some(i) on true and setting None on false.  With
\* last_shrinker None it returns false and touches no sub-tree, and only a
\* simplify() that returns true sets last_shrinker again.
C16_ComplicateLastShrinker ==
    /\ (op = "complicate" /\ before.last_shrinker # None) =>
        LET i == before.last_shrinker[1]
        IN  /\ shrinker = i
            /\ called = <<<<"complicate", i>>>>
            /\ ret = sub_complicate(before.tree[i + 1]).ret
            /\ tree[i + 1] = sub_complicate(before.tree[i + 1]).t
            /\ \A k \in 0..(N - 1) : (k # i) => (tree[k + 1] = before.tree[k + 1])
            /\ last_shrinker = IF ret THEN Some(i) ELSE None
    /\ (op = "complicate" /\ before.last_shrinker = None) =>
        /\ ~ret
        /\ called = <<>>
        /\ tree = before.tree
        /\ shrinker = before.shrinker
        /\ last_shrinker = None
    /\ (op = "current" \/ (op = "simplify" /\ ~ret)) =>
        (last_shrinker = before.last_shrinker)

\* a complicate() that the sub-tree refused, followed by a complicate() that
\* touched nothing
C16_Witness ==
    /\ op = "complicate"
    /\ before.op = "complicate"
    /\ before.last_shrinker = None
    /\ ~fresh
    /\ ~before.ret
    /\ before.shrinker < N

\* C17 (Spec): for an element strategy S, arity N and any runner, new_tree of
\* the array of N copies of S and new_tree of uniform(S) make the same
\* sub-draws and return the same outcome; the tree built is that outcome.
C17_UniformEquivalent ==
    op = "new_tree" =>
        LET S == ElementStrategy(input, 0)
            a == new_tree([i \in 1..input.n |-> S], before.runner)
            u == uniform_new_tree(S, input.n, before.runner)
        IN  /\ a = u
            /\ (status = "tree") = u.ok
            /\ tree = u.tree
            /\ runner = u.runner
            /\ Len(called) = u.drawn
            /\ shrinker = u.shrinker
            /\ last_shrinker = u.last_shrinker

\* new_tree of the uniform strategy has rejected at the second sub-draw
C17_Witness ==
    /\ op = "new_tree"
    /\ input.uniform
    /\ status = "reject"
    /\ Len(called) = 2
    /\ before.runner[1] # Reject

C13_AssumeRejects ==
    /\ test_case.pc = "assert" => assumption(test_case.a, test_case.b)
    /\ test_case.pc = "returned" =>
        IF assumption(test_case.a, test_case.b)
        THEN test_case.asserted /\ test_case.result.kind # "Reject"
        ELSE /\ ~test_case.asserted
             /\ test_case.result = TestCaseError_Reject(format("a != 41 || b != 9"))
    /\ test_case.pc \in {"assert", "returned"} /\ test_case.asserted =>
            ~(test_case.a = AssumeA /\ test_case.b = AssumeB)
C13_Witness ==
    /\ test_case.pc = "returned"
    /\ test_case.a = AssumeA
    /\ test_case.b = AssumeB
    /\ test_case.result.kind = "Reject"

RECURSIVE RightNested(_, _, _)
\* x is item i when i = k, and (item i, rest) with rest right-nested from
\* i + 1 otherwise
RightNested(x, i, k) ==
    IF i = k
    THEN x = Item(k)
    ELSE /\ x.kind = "pair"
         /\ x.fst = Item(i)
         /\ RightNested(x.snd, i + 1, k)

\* C18: for every parameter count k >= 1 the expansions of @_WRAP and of
\* @_WRAPPAT have the same right-nested pair shape, a single item for k = 1,
\* and the i-th parameter pattern is bound to the value the i-th strategy
\* generated.
C18_WrapShapes ==
    /\ wrap.pc \in {"expanded", "run"} =>
        /\ RightNested(wrap.strategy, 1, wrap.k)
        /\ RightNested(wrap.pattern, 1, wrap.k)
        /\ wrap.strategy = wrap.pattern
    /\ wrap.pc = "run" =>
        wrap.bindings = {<<i, Value(wrap.values[i])>> : i \in 1..wrap.k}
C18_Witness ==
    /\ wrap.pc = "run"
    /\ wrap.k = MaxParams
    /\ wrap.values[1] # wrap.values[MaxParams]
    /\ <<MaxParams, Value(wrap.values[MaxParams])>> \in wrap.bindings

====
